---- MODULE Spec2Model ----
(***************************************************************************)
(* A model of the SRRS resume pipeline:                                    *)
(*   parser.py         safe_post_request, GroqResumeExtractor,             *)
(*                     ResumeRanker, process_resumes                       *)
(*   fetch_resumes.py  save_attachment, fetch_resumes_from_gmail           *)
(* File names are sequences of one-character strings, so that lower(),     *)
(* endswith(), splitext() and the f-string that builds a unique name are   *)
(* computed as the code computes them.  Similarity scores are integers in  *)
(* units of 1e-5; rounded scores are integers in units of 1e-4.            *)
(***************************************************************************)
EXTENDS Integers, Sequences, FiniteSets, TLC

VARIABLES
    \* ---- parser.py ----
    pc,                \* position in process_resumes / safe_post_request
    listing,           \* os.listdir(folder_path), in the order it yields
    textOf,            \* file name -> text of the PDF, or Unreadable
    idx,               \* position of the for loop of process_resumes in listing
    text,              \* local `text` of process_resumes
    resume_texts,      \* local `resume_texts`
    detailed_results,  \* local `detailed_results`
    prompted,          \* history: [file, text] of every extract_info call
    retries,           \* parameter `retries` of safe_post_request
    post_i,            \* loop variable `i` of safe_post_request
    log,               \* sleeps and requests of the current call, in order
    response,          \* the response safe_post_request returned, or NoResponse
    exc,               \* the exception that left the function, or "none"
    scores,            \* local `scores` of process_resumes
    returned,          \* return value of process_resumes
    \* ---- fetch_resumes.py ----
    folder,            \* the folder 'resumes': stored file name -> bytes
    saved,             \* history: one record per save_attachment call
    f_pc,              \* position in fetch_resumes_from_gmail
    env,               \* os.getenv: which of EMAIL, EMAIL_PASSWORD are set
    imap_state,        \* imaplib's connection state: none, AUTH, SELECTED, LOGOUT
    imap_log,          \* history: the commands sent on the connection and how they ended
    mail_ids,          \* local `mail_ids`
    m_idx,             \* position of the for loop over mail_ids
    failed,            \* history: positions of the messages whose handling raised
    resume_count,      \* local `resume_count`
    processed_emails,  \* local `processed_emails`
    f_exc,             \* the exception that left fetch_resumes_from_gmail, or "none"
    f_ret,             \* what fetch_resumes_from_gmail returned, or NotReturned
    walked,            \* history: the parts of the last message walked, and
                       \* how many save_attachment calls came before it
    rank_calls,        \* history: one record per call of rank_resumes
    checked            \* is_resume_file: the filename given and the result

parserVars == <<pc, listing, textOf, idx, text, resume_texts, detailed_results,
                prompted, retries, post_i, log, response, exc, scores, returned,
                rank_calls>>

saveVars == <<folder, saved>>

fetchVars == <<f_pc, env, imap_state, imap_log, mail_ids, m_idx, failed,
               resume_count, processed_emails, f_exc, f_ret, walked>>

resumeVars == <<checked>>

vars == <<parserVars, saveVars, fetchVars, resumeVars>>

-----------------------------------------------------------------------------
(* Bounds of the model *)

MaxFiles == 3
MaxRetries == 4
MaxSaves == 3
MaxMails == 2
MaxParts == 2

-----------------------------------------------------------------------------
(* The parts of the state a specification does not exercise *)

\* a Python value: None, or an int
PyNone == [kind |-> "None"]
PyInt(n) == [kind |-> "int", value |-> n]

NotReturned == [kind |-> "not returned"]
NotWalked == [parts |-> <<>>, from |-> 0]
NotChecked == [called |-> FALSE, filename |-> <<>>, result |-> FALSE]

ResumeIdle == checked = NotChecked

FetchIdle ==
    /\ f_pc = "idle"
    /\ env = [EMAIL |-> TRUE, EMAIL_PASSWORD |-> TRUE]
    /\ imap_state = "none"
    /\ imap_log = <<>>
    /\ mail_ids = <<>>
    /\ m_idx = 1
    /\ failed = {}
    /\ resume_count = 0
    /\ processed_emails = 0
    /\ f_exc = "none"
    /\ f_ret = NotReturned
    /\ walked = NotWalked

-----------------------------------------------------------------------------
(* Strings as sequences of characters *)

RECURSIVE Pow2(_)
Pow2(n) == IF n = 0 THEN 1 ELSE 2 * Pow2(n - 1)

LowerChar(c) ==
    CASE c = "A" -> "a" [] c = "B" -> "b" [] c = "C" -> "c" [] c = "D" -> "d"
      [] c = "F" -> "f" [] c = "O" -> "o" [] c = "P" -> "p" [] c = "R" -> "r"
      [] c = "T" -> "t" [] c = "X" -> "x"
      [] OTHER -> c

Lower(s) == [k \in 1..Len(s) |-> LowerChar(s[k])]

EndsWith(s, suffix) ==
    /\ Len(s) >= Len(suffix)
    /\ SubSeq(s, Len(s) - Len(suffix) + 1, Len(s)) = suffix

DotPdf == <<".", "p", "d", "f">>

IsPdfName(filename) == EndsWith(Lower(filename), DotPdf)

-----------------------------------------------------------------------------
(* The folder process_resumes scans *)

FileNames ==
    { <<"a", ".", "p", "d", "f">>,
      <<"b", ".", "P", "D", "F">>,
      <<"c", ".", "t", "x", "t">>,
      <<"d", ".", "p", "d", "f">> }

Texts == {"t1", "t2", "t3"}
Unreadable == "unreadable"

Range(s) == {s[k] : k \in 1..Len(s)}

Listings ==
    UNION { { s \in [1..n -> FileNames] : \A j, k \in 1..n : j # k => s[j] # s[k] }
            : n \in 0..MaxFiles }

-----------------------------------------------------------------------------
(* safe_post_request *)

DefaultRetries == 3
Cooldown == 10

NoResponse == [status |-> 0, body |-> "none", prompt |-> "none"]

Statuses == {200, 304, 404, 429, 500}

Bodies(status) ==
    IF status = 200
    THEN {"valid", "not_json", "no_choices", "content_not_json"}
    ELSE {"error_page"}

Responses(prompt) ==
    UNION { { [status |-> st, body |-> b, prompt |-> prompt] : b \in Bodies(st) }
            : st \in Statuses }

Sleep(n) == [ev |-> "sleep", n |-> n]
Post(status) == [ev |-> "post", n |-> status]

\* a linear backoff in place of the exponential one
WaitTimeLinear(i) == 2 * i

WaitTime(i) == Pow2(i)

\* only server errors raise
RaisesForServerError(status) == status >= 500 /\ status < 600

\* requests.Response.raise_for_status: an HTTPError for 4xx and 5xx
RaisesForStatus(status) == status >= 400 /\ status < 600

\* range(retries) taken one too far
InRangeInclusive(i, n) == i >= 0 /\ i <= n

\* for i in range(retries): the body runs for i = 0 .. retries - 1
InRange(i, n) == i >= 0 /\ i < n

\* wait_time = 2 ** i; time.sleep(wait_time): the loop goes on
PostRateLimited ==
    /\ pc = "post"
    /\ InRange(post_i, retries)
    /\ log' = log \o <<Post(429), Sleep(WaitTime(post_i))>>
    /\ post_i' = post_i + 1
    /\ UNCHANGED <<pc, listing, textOf, idx, text, resume_texts, detailed_results,
                   prompted, retries, response, exc, scores, returned,
                   rank_calls, saveVars, fetchVars, resumeVars>>

\* response.raise_for_status() raises
PostHttpError ==
    /\ pc = "post"
    /\ InRange(post_i, retries)
    /\ \E r \in Responses(text) :
          /\ r.status # 429
          /\ RaisesForStatus(r.status)
          /\ log' = Append(log, Post(r.status))
    /\ pc' = "raised"
    /\ exc' = "HTTPError"
    /\ UNCHANGED <<listing, textOf, idx, text, resume_texts, detailed_results,
                   prompted, retries, post_i, response, scores, returned,
                   rank_calls, saveVars, fetchVars, resumeVars>>

\* return response
PostReturn ==
    /\ pc = "post"
    /\ InRange(post_i, retries)
    /\ \E r \in Responses(text) :
          /\ r.status # 429
          /\ ~RaisesForStatus(r.status)
          /\ log' = Append(log, Post(r.status))
          /\ response' = r
    /\ pc' = "post_return"
    /\ UNCHANGED <<listing, textOf, idx, text, resume_texts, detailed_results,
                   prompted, retries, post_i, exc, scores, returned,
                   rank_calls, saveVars, fetchVars, resumeVars>>

\* the for loop ran out: raise Exception("Failed after retries.")
PostExhausted ==
    /\ pc = "post"
    /\ ~InRange(post_i, retries)
    /\ pc' = "raised"
    /\ exc' = "Failed after retries."
    /\ UNCHANGED <<listing, textOf, idx, text, resume_texts, detailed_results,
                   prompted, retries, post_i, log, response, scores, returned,
                   rank_calls, saveVars, fetchVars, resumeVars>>

-----------------------------------------------------------------------------
(* A direct call safe_post_request(endpoint, data, headers, retries) *)

InitPost ==
    /\ pc = "post"
    /\ retries \in 0..MaxRetries
    /\ text \in Texts
    /\ post_i = 0
    /\ log = <<>>
    /\ response = NoResponse
    /\ exc = "none"
    /\ listing = <<>>
    /\ textOf = <<>>
    /\ idx = 1
    /\ resume_texts = <<>>
    /\ detailed_results = <<>>
    /\ prompted = <<>>
    /\ scores = <<>>
    /\ returned = <<>>
    /\ rank_calls = <<>>
    /\ folder = <<>>
    /\ saved = <<>>
    /\ FetchIdle
    /\ ResumeIdle

NextPost == PostRateLimited \/ PostHttpError \/ PostReturn \/ PostExhausted

SpecPost == InitPost /\ [][NextPost]_vars

-----------------------------------------------------------------------------
(* GroqResumeExtractor.extract_info, after the request *)

\* response.json()["choices"][0]["message"]["content"], then json.loads(reply)
ParsesAsRecord(body) == body = "valid"

ParseError(body) ==
    CASE body = "no_choices" -> "KeyError"
      [] OTHER -> "JSONDecodeError"

\* the except branch drops the original body
ParseReplyNoRaw(r) ==
    IF r.body = "valid"
    THEN [name |-> "name", email |-> "email", phone |-> "phone",
          skills |-> <<"skill">>, experience |-> <<"job">>]
    ELSE [error |-> "JSONDecodeError"]

ParseReply(r) ==
    IF ParsesAsRecord(r.body)
    THEN [name |-> "name", email |-> "email", phone |-> "phone",
          skills |-> <<"skill">>, experience |-> <<"job">>]
    ELSE [error |-> ParseError(r.body), raw_response |-> r.body]

-----------------------------------------------------------------------------
(* ResumeRanker.rank_resumes *)

\* util.cos_sim(job_embedding, resume_embedding).item(), in units of 1e-5
CosSim(t) ==
    CASE t = "t1" -> 81234
      [] t = "t2" -> 81231
      [] t = "t3" -> 0 - 1207

\* the scores come back in the opposite order
RankResumesReversed(resume_texts_) ==
    [k \in 1..Len(resume_texts_) |-> CosSim(resume_texts_[Len(resume_texts_) + 1 - k])]

JobDesc == "job description"

\* the arguments of self.model.encode during one call, in order: self.job_desc
\* before the loop, then each resume_text inside it
Encoded(resume_texts_) == <<JobDesc>> \o resume_texts_

RankResumes(resume_texts_) == [k \in 1..Len(resume_texts_) |-> CosSim(resume_texts_[k])]

\* round(x, 4): from units of 1e-5 to the nearest unit of 1e-4
Round4(x) == (x + 5) \div 10

-----------------------------------------------------------------------------
(* process_resumes *)

\* scores indexed from the other end of the list
MergedReversed(results, scores_) ==
    [k \in 1..Len(results) |->
        [file |-> results[k].file, info |-> results[k].info,
         relevance_score |-> Round4(scores_[Len(results) + 1 - k])]]

\* result["relevance_score"] = round(scores[i], 4); del result["text"]
Merged(results, scores_) ==
    [k \in 1..Len(results) |->
        [file |-> results[k].file, info |-> results[k].info,
         relevance_score |-> Round4(scores_[k])]]

\* reverse=True forgotten: ascending
InsertAsc(sorted, x) ==
    LET n == Cardinality({k \in 1..Len(sorted) :
                            sorted[k].relevance_score <= x.relevance_score})
    IN  SubSeq(sorted, 1, n) \o <<x>> \o SubSeq(sorted, n + 1, Len(sorted))

\* sorted(..., key=relevance_score, reverse=True): stable, descending
InsertDesc(sorted, x) ==
    LET n == Cardinality({k \in 1..Len(sorted) :
                            sorted[k].relevance_score >= x.relevance_score})
    IN  SubSeq(sorted, 1, n) \o <<x>> \o SubSeq(sorted, n + 1, Len(sorted))

RECURSIVE SortedDesc(_)
SortedDesc(s) ==
    IF s = <<>> THEN <<>>
    ELSE InsertDesc(SortedDesc(SubSeq(s, 1, Len(s) - 1)), s[Len(s)])

\* for filename in os.listdir(folder_path): a name that does not end in .pdf
SkipFile ==
    /\ pc = "loop"
    /\ idx <= Len(listing)
    /\ ~IsPdfName(listing[idx])
    /\ idx' = idx + 1
    /\ UNCHANGED <<pc, listing, textOf, text, resume_texts, detailed_results,
                   prompted, retries, post_i, log, response, exc, scores, returned,
                   rank_calls, saveVars, fetchVars, resumeVars>>

\* text = extractor.extract_text_from_pdf(file_path): fitz.open raises
ExtractTextFails ==
    /\ pc = "loop"
    /\ idx <= Len(listing)
    /\ IsPdfName(listing[idx])
    /\ textOf[listing[idx]] = Unreadable
    /\ pc' = "raised"
    /\ exc' = "FileDataError"
    /\ UNCHANGED <<listing, textOf, idx, text, resume_texts, detailed_results,
                   prompted, retries, post_i, log, response, scores, returned,
                   rank_calls, saveVars, fetchVars, resumeVars>>

\* no cooldown before the request
NoCooldown == <<>>

\* time.sleep(10), once in extract_info, before safe_post_request is called
BeforeRequest == <<Sleep(Cooldown)>>

\* text = extract_text_from_pdf(file_path); extract_info(text) up to
\* time.sleep(10) and the call safe_post_request(self.endpoint, data, headers)
ExtractText ==
    /\ pc = "loop"
    /\ idx <= Len(listing)
    /\ IsPdfName(listing[idx])
    /\ textOf[listing[idx]] # Unreadable
    /\ text' = textOf[listing[idx]]
    /\ prompted' = Append(prompted, [file |-> listing[idx], text |-> text'])
    /\ log' = BeforeRequest
    /\ retries' = DefaultRetries
    /\ post_i' = 0
    /\ response' = NoResponse
    /\ pc' = "post"
    /\ UNCHANGED <<listing, textOf, idx, resume_texts, detailed_results,
                   exc, scores, returned,
                   rank_calls, saveVars, fetchVars, resumeVars>>

\* the rest of extract_info, then resume_texts.append, detailed_results.append
AppendResult ==
    /\ pc = "post_return"
    /\ idx <= Len(listing)
    /\ resume_texts' = Append(resume_texts, text)
    /\ detailed_results' =
           Append(detailed_results,
                  [file |-> listing[idx], info |-> ParseReply(response), text |-> text])
    /\ idx' = idx + 1
    /\ pc' = "loop"
    /\ UNCHANGED <<listing, textOf, text, prompted, retries, post_i, log,
                   response, exc, scores, returned,
                   rank_calls, saveVars, fetchVars, resumeVars>>

\* scores = ranker.rank_resumes([res["text"] for res in detailed_results]),
\* the merge loop and return sorted(...)
RankAndReturn ==
    /\ pc = "loop"
    /\ idx > Len(listing)
    /\ LET arg == [k \in 1..Len(detailed_results) |-> detailed_results[k].text]
       IN  /\ scores' = RankResumes(arg)
           /\ rank_calls' = Append(rank_calls,
                                   [resume_texts |-> arg, encoded |-> Encoded(arg)])
    /\ returned' = SortedDesc(Merged(detailed_results, scores'))
    /\ pc' = "done"
    /\ UNCHANGED <<listing, textOf, idx, text, resume_texts, detailed_results,
                   prompted, retries, post_i, log, response, exc,
                   saveVars, fetchVars, resumeVars>>

Init ==
    /\ pc = "loop"
    /\ listing \in Listings
    /\ textOf \in [{f \in Range(listing) : IsPdfName(f)} -> Texts \cup {Unreadable}]
    /\ idx = 1
    /\ text = "none"
    /\ resume_texts = <<>>
    /\ detailed_results = <<>>
    /\ prompted = <<>>
    /\ retries = DefaultRetries
    /\ post_i = 0
    /\ log = <<>>
    /\ response = NoResponse
    /\ exc = "none"
    /\ scores = <<>>
    /\ returned = <<>>
    /\ rank_calls = <<>>
    /\ folder = <<>>
    /\ saved = <<>>
    /\ FetchIdle
    /\ ResumeIdle

Next ==
    \/ SkipFile
    \/ ExtractTextFails
    \/ ExtractText
    \/ PostRateLimited
    \/ PostHttpError
    \/ PostReturn
    \/ PostExhausted
    \/ AppendResult
    \/ RankAndReturn

Spec == Init /\ [][Next]_vars

-----------------------------------------------------------------------------
(* save_attachment *)

\* the index of the last "." of s, 0 when there is none
LastDot(s) ==
    LET dots == {k \in 1..Len(s) : s[k] = "."}
    IN  IF dots = {} THEN 0 ELSE CHOOSE k \in dots : \A j \in dots : j <= k

\* os.path.splitext: the extension starts at the last dot, unless only dots
\* come before it (leading dots belong to the base name)
SplitExt(s) ==
    LET d == LastDot(s)
    IN  IF d > 0 /\ \E k \in 1..(d - 1) : s[k] # "."
        THEN [base |-> SubSeq(s, 1, d - 1), ext |-> SubSeq(s, d, Len(s))]
        ELSE [base |-> s, ext |-> <<>>]

DigitChar(d) ==
    CASE d = 0 -> "0" [] d = 1 -> "1" [] d = 2 -> "2" [] d = 3 -> "3" [] d = 4 -> "4"
      [] d = 5 -> "5" [] d = 6 -> "6" [] d = 7 -> "7" [] d = 8 -> "8" [] d = 9 -> "9"

\* str(counter) inside the f-string
RECURSIVE Str(_)
Str(n) == IF n < 10 THEN <<DigitChar(n)>> ELSE Str(n \div 10) \o <<DigitChar(n % 10)>>

\* f"{base_name}_{counter}{ext}"
Suffixed(base_name, counter, ext) == base_name \o <<"_">> \o Str(counter) \o ext

\* while os.path.exists(os.path.join(folder, unique_filename)): ... counter += 1
RECURSIVE NextFree(_, _, _, _)
NextFree(existing, base_name, ext, counter) ==
    LET unique_filename == Suffixed(base_name, counter, ext)
    IN  IF unique_filename \in existing
        THEN NextFree(existing, base_name, ext, counter + 1)
        ELSE unique_filename

\* no existence check: the attachment's own name is always used
UniqueFilenameUnchecked(existing, filename) == filename

UniqueFilename(existing, filename) ==
    IF filename \in existing
    THEN NextFree(existing, SplitExt(filename).base, SplitExt(filename).ext, 1)
    ELSE filename

\* open(filepath, 'wb') creates or truncates the file, f.write stores the bytes
WriteFile(dir, path, data) ==
    [n \in DOMAIN dir \cup {path} |-> IF n = path THEN data ELSE dir[n]]

Empty == 0

\* What the with-block leaves behind: all the bytes; nothing when open() raises;
\* an empty file when open() succeeded and f.write raises
WriteOutcomes == {"written", "open_fails", "write_fails"}

AfterSave(dir, filename, data, outcome) ==
    LET filepath == UniqueFilename(DOMAIN dir, filename)
    IN  CASE outcome = "written"     -> WriteFile(dir, filepath, data)
          [] outcome = "write_fails" -> WriteFile(dir, filepath, Empty)
          [] outcome = "open_fails"  -> dir

SaveRecord(dir, filename, data, outcome) ==
    [filename |-> filename,
     stored   |-> UniqueFilename(DOMAIN dir, filename),
     data     |-> IF outcome = "written" THEN data ELSE Empty,
     created  |-> outcome # "open_fails",
     ok       |-> outcome = "written",
     before   |-> DOMAIN dir]

AttachmentNames ==
    { <<"a", ".", "p", "d", "f">>,
      <<"a", "_", "1", ".", "p", "d", "f">>,
      <<"a">>,
      <<".", "r", "t", "f">> }

\* one call save_attachment(part, filename); the payload of the k-th call is k
SaveAttachment ==
    /\ Len(saved) < MaxSaves
    /\ \E filename \in AttachmentNames, outcome \in WriteOutcomes :
          LET data == Len(saved) + 1
          IN  /\ folder' = AfterSave(folder, filename, data, outcome)
              /\ saved' = Append(saved, SaveRecord(folder, filename, data, outcome))
    /\ UNCHANGED <<parserVars, fetchVars, resumeVars>>

InitSave ==
    /\ folder = <<>>
    /\ saved = <<>>
    /\ pc = "idle"
    /\ listing = <<>>
    /\ textOf = <<>>
    /\ idx = 1
    /\ text = "none"
    /\ resume_texts = <<>>
    /\ detailed_results = <<>>
    /\ prompted = <<>>
    /\ retries = DefaultRetries
    /\ post_i = 0
    /\ log = <<>>
    /\ response = NoResponse
    /\ exc = "none"
    /\ scores = <<>>
    /\ returned = <<>>
    /\ rank_calls = <<>>
    /\ FetchIdle
    /\ ResumeIdle

NextSave == SaveAttachment

SpecSave == InitSave /\ [][NextSave]_vars

-----------------------------------------------------------------------------
(* is_resume_file and decode_mime_words *)

ResumeExtensions ==
    { <<".", "p", "d", "f">>, <<".", "d", "o", "c">>, <<".", "d", "o", "c", "x">>,
      <<".", "t", "x", "t">>, <<".", "r", "t", "f">> }

NoFilename == [charset |-> "none", name |-> <<>>]

\* the extension compared without lower()
IsResumeFileCaseSensitive(filename) ==
    IF filename = <<>> THEN FALSE
    ELSE SplitExt(filename).ext \in ResumeExtensions

IsResumeFile(filename) ==
    IF filename = <<>> THEN FALSE
    ELSE SplitExt(Lower(filename)).ext \in ResumeExtensions

\* part.decode(encoding or 'utf-8', errors='ignore') raises LookupError for a
\* charset Python does not know
DecodeRaises(header) == header.charset = "bogus"

\* decode_mime_words of a header whose words decode to header.name
DecodeMimeWords(header) == header.name

-----------------------------------------------------------------------------
(* fetch_resumes_from_gmail *)

Cmd(name, arg, result) == [cmd |-> name, arg |-> arg, result |-> result]

APdf == <<"a", ".", "p", "d", "f">>
XPng == <<"x", ".", "p", "n", "g">>

\* the parts msg.walk() can yield; `write` is what the disk does if the part is saved
Parts ==
    { [maintype |-> "multipart", disposition |-> "none", filename |-> NoFilename,
       write |-> "written"],
      [maintype |-> "text", disposition |-> "none", filename |-> NoFilename,
       write |-> "written"],
      [maintype |-> "application", disposition |-> "attachment", filename |-> NoFilename,
       write |-> "written"],
      [maintype |-> "application", disposition |-> "attachment",
       filename |-> [charset |-> "bogus", name |-> APdf], write |-> "written"],
      [maintype |-> "image", disposition |-> "attachment",
       filename |-> [charset |-> "utf-8", name |-> XPng], write |-> "written"],
      [maintype |-> "application", disposition |-> "inline",
       filename |-> [charset |-> "utf-8", name |-> APdf], write |-> "written"] }
    \cup
    { [maintype |-> "application", disposition |-> "attachment",
       filename |-> [charset |-> "utf-8", name |-> APdf], write |-> w]
      : w \in {"written", "open_fails"} }

PartSeqs == UNION { [1..n -> Parts] : n \in 0..MaxParts }

\* what imap.fetch and email.message_from_bytes make of one message id
Messages ==
    { [fetch |-> "raises", payload |-> "none", headers_ok |-> TRUE, parts |-> <<>>],
      [fetch |-> "NO", payload |-> "none", headers_ok |-> TRUE, parts |-> <<>>],
      [fetch |-> "OK", payload |-> "none", headers_ok |-> TRUE, parts |-> <<>>],
      [fetch |-> "OK", payload |-> "bytes", headers_ok |-> FALSE, parts |-> <<>>] }
    \cup
    { [fetch |-> "OK", payload |-> "bytes", headers_ok |-> TRUE, parts |-> ps]
      : ps \in PartSeqs }

\* any Content-Disposition counts
IsAttachmentOrInline(part) == part.disposition # "none"

\* content_disposition and 'attachment' in content_disposition
IsAttachment(part) == part.disposition = "attachment"

\* the body of `for part in msg.walk()` for one part; st.raised is set when the
\* part raises out of the loop
WalkPart(part, st) ==
    IF part.maintype = "multipart" THEN st
    ELSE IF ~IsAttachment(part) THEN st
    ELSE IF part.filename = NoFilename THEN st
    ELSE IF DecodeRaises(part.filename) THEN [st EXCEPT !.raised = TRUE]
    ELSE IF IsResumeFile(DecodeMimeWords(part.filename))
         THEN LET filename == DecodeMimeWords(part.filename)
                  data == Len(st.saved) + 1
              IN  [st EXCEPT
                     !.folder = AfterSave(st.folder, filename, data, part.write),
                     !.saved = Append(st.saved,
                                      SaveRecord(st.folder, filename, data, part.write)),
                     !.resume_count =
                         IF part.write = "written" THEN st.resume_count + 1
                         ELSE st.resume_count]
         ELSE st

RECURSIVE WalkParts(_, _)
WalkParts(parts, st) ==
    IF parts = <<>> \/ st.raised THEN st
    ELSE WalkParts(Tail(parts), WalkPart(Head(parts), st))

\* a try around the whole loop: the first failure leaves the loop
MessageErrorLeavesLoop == "finally"

\* where control goes when handling one message raises: the except of the try
\* inside the for loop, whose `continue` goes on with the next mail id
MessageErrorTarget == "loop"

\* the value fetch_resumes_from_gmail hands back: resume_count is printed in
\* the summary, never returned
ReturnValue(count) == PyNone

\* the guard reads only one of the two settings
OnlyEmailMissing(e) == ~e.EMAIL

\* if not EMAIL or not PASSWORD
CredentialsMissing(e) == ~e.EMAIL \/ ~e.EMAIL_PASSWORD

\* connect_to_gmail() and `if not imap: return`
ConnectToGmail ==
    /\ f_pc = "start"
    /\ \/ /\ CredentialsMissing(env)
          /\ f_pc' = "returned"
          /\ UNCHANGED <<imap_state, imap_log>>
       \/ /\ ~CredentialsMissing(env)
          /\ \/ /\ imap_log' = <<Cmd("connect", 0, "raises")>>
                /\ f_pc' = "returned"
                /\ UNCHANGED imap_state
             \/ /\ imap_log' = <<Cmd("connect", 0, "OK"), Cmd("login", 0, "raises")>>
                /\ f_pc' = "returned"
                /\ UNCHANGED imap_state
             \/ /\ imap_log' = <<Cmd("connect", 0, "OK"), Cmd("login", 0, "OK")>>
                /\ imap_state' = "AUTH"
                /\ f_pc' = "select"
    /\ f_ret' = IF f_pc' = "returned" THEN PyNone ELSE f_ret
    /\ UNCHANGED <<env, mail_ids, m_idx, failed, resume_count, processed_emails, f_exc,
                   walked>>
    /\ UNCHANGED <<parserVars, saveVars, resumeVars>>

\* imap.select("INBOX"): the result is not looked at; a NO leaves the state AUTH
SelectInbox ==
    /\ f_pc = "select"
    /\ \/ /\ imap_log' = Append(imap_log, Cmd("select", 0, "OK"))
          /\ imap_state' = "SELECTED"
          /\ f_pc' = "search"
       \/ /\ imap_log' = Append(imap_log, Cmd("select", 0, "NO"))
          /\ imap_state' = "AUTH"
          /\ f_pc' = "search"
       \/ /\ imap_log' = Append(imap_log, Cmd("select", 0, "raises"))
          /\ UNCHANGED imap_state
          /\ f_pc' = "finally"
    /\ UNCHANGED <<env, mail_ids, m_idx, failed, resume_count, processed_emails, f_exc,
                   f_ret, walked>>
    /\ UNCHANGED <<parserVars, saveVars, resumeVars>>

\* imap.search(None, '(UNSEEN)') up to `if not mail_ids: return`;
\* imaplib refuses SEARCH outside the state SELECTED
SearchUnseen ==
    /\ f_pc = "search"
    /\ \/ /\ imap_state # "SELECTED"
          /\ imap_log' = Append(imap_log, Cmd("search", 0, "raises"))
          /\ f_pc' = "finally"
          /\ UNCHANGED mail_ids
       \/ /\ imap_state = "SELECTED"
          /\ \E result \in {"raises", "NO"} :
                imap_log' = Append(imap_log, Cmd("search", 0, result))
          /\ f_pc' = "finally"
          /\ UNCHANGED mail_ids
       \/ /\ imap_state = "SELECTED"
          /\ imap_log' = Append(imap_log, Cmd("search", 0, "OK"))
          /\ \E n \in 0..MaxMails :
                /\ mail_ids' = [k \in 1..n |-> k]
                /\ f_pc' = IF n = 0 THEN "finally" ELSE "loop"
    /\ UNCHANGED <<env, imap_state, m_idx, failed, resume_count, processed_emails, f_exc,
                   f_ret, walked>>
    /\ UNCHANGED <<parserVars, saveVars, resumeVars>>

\* one iteration of `for mail_id in mail_ids`, with its try/except; `record`
\* says whether the history variable walked keeps the parts of the message
HandleMessage(record) ==
    /\ f_pc = "loop"
    /\ m_idx <= Len(mail_ids)
    /\ \E msg \in Messages :
          \E st \in {WalkParts(msg.parts,
                                [folder |-> folder, saved |-> saved,
                                 resume_count |-> resume_count, raised |-> FALSE])} :
             LET raisedEarly == \/ msg.fetch = "raises"
                                \/ msg.fetch = "OK" /\ msg.payload # "bytes"
                                \/ msg.fetch = "OK" /\ ~msg.headers_ok
                 parsed == msg.fetch = "OK" /\ msg.payload = "bytes"
                 raised == raisedEarly \/ st.raised
             IN  /\ imap_log' = Append(imap_log, Cmd("fetch", mail_ids[m_idx], msg.fetch))
                 /\ processed_emails' = IF parsed THEN processed_emails + 1
                                        ELSE processed_emails
                 /\ folder' = st.folder
                 /\ saved' = st.saved
                 /\ resume_count' = st.resume_count
                 /\ failed' = IF raised THEN failed \cup {m_idx} ELSE failed
                 /\ f_pc' = IF raised THEN MessageErrorTarget ELSE "loop"
                 /\ m_idx' = m_idx + 1
                 /\ walked' = IF record THEN [parts |-> msg.parts, from |-> Len(saved)]
                               ELSE walked
    /\ UNCHANGED <<env, imap_state, mail_ids, f_exc, f_ret>>
    /\ UNCHANGED <<parserVars, resumeVars>>

ProcessMessage == HandleMessage(FALSE)

\* the for loop is over: the summary is printed
Summary ==
    /\ f_pc = "loop"
    /\ m_idx > Len(mail_ids)
    /\ f_pc' = "finally"
    /\ UNCHANGED <<env, imap_state, imap_log, mail_ids, m_idx, failed, resume_count,
                   processed_emails, f_exc, f_ret, walked>>
    /\ UNCHANGED <<parserVars, saveVars, resumeVars>>

\* finally: try: imap.close(); imap.logout() except: pass
\* and the function ends: every `return` of the body is a bare return, and
\* the end of the body returns None as well
\* imaplib refuses CLOSE outside the state SELECTED; either command can fail
\* on a broken connection
Teardown ==
    /\ f_pc = "finally"
    /\ \/ /\ imap_log' = Append(imap_log, Cmd("close", 0, "raises"))
          /\ UNCHANGED imap_state
       \/ /\ imap_state = "SELECTED"
          /\ imap_log' = imap_log \o <<Cmd("close", 0, "OK"), Cmd("logout", 0, "raises")>>
          /\ imap_state' = "AUTH"
       \/ /\ imap_state = "SELECTED"
          /\ imap_log' = imap_log \o <<Cmd("close", 0, "OK"), Cmd("logout", 0, "BYE")>>
          /\ imap_state' = "LOGOUT"
    /\ f_pc' = "returned"
    /\ f_ret' = ReturnValue(resume_count)
    /\ UNCHANGED <<env, mail_ids, m_idx, failed, resume_count, processed_emails, f_exc,
                   walked>>
    /\ UNCHANGED <<parserVars, saveVars, resumeVars>>

ParserIdle ==
    /\ pc = "idle"
    /\ listing = <<>>
    /\ textOf = <<>>
    /\ idx = 1
    /\ text = "none"
    /\ resume_texts = <<>>
    /\ detailed_results = <<>>
    /\ prompted = <<>>
    /\ retries = DefaultRetries
    /\ post_i = 0
    /\ log = <<>>
    /\ response = NoResponse
    /\ exc = "none"
    /\ scores = <<>>
    /\ returned = <<>>
    /\ rank_calls = <<>>

InitFetch ==
    /\ f_pc = "start"
    /\ env \in [{"EMAIL", "EMAIL_PASSWORD"} -> BOOLEAN]
    /\ imap_state = "none"
    /\ imap_log = <<>>
    /\ mail_ids = <<>>
    /\ m_idx = 1
    /\ failed = {}
    /\ resume_count = 0
    /\ processed_emails = 0
    /\ f_exc = "none"
    /\ f_ret = NotReturned
    /\ walked = NotWalked
    /\ ResumeIdle
    /\ folder = <<>>
    /\ saved = <<>>
    /\ ParserIdle

NextFetch ==
    \/ ConnectToGmail
    \/ SelectInbox
    \/ SearchUnseen
    \/ ProcessMessage
    \/ Summary
    \/ Teardown

SpecFetch == InitFetch /\ [][NextFetch]_vars

-----------------------------------------------------------------------------
(* One unread message: fetch_resumes_from_gmail from the point where the
   search has returned a single mail id, with the walked parts recorded *)

WalkMessage == HandleMessage(TRUE)

InitWalk ==
    /\ f_pc = "loop"
    /\ env = [EMAIL |-> TRUE, EMAIL_PASSWORD |-> TRUE]
    /\ imap_state = "SELECTED"
    /\ imap_log = <<Cmd("connect", 0, "OK"), Cmd("login", 0, "OK"),
                    Cmd("select", 0, "OK"), Cmd("search", 0, "OK")>>
    /\ mail_ids = <<1>>
    /\ m_idx = 1
    /\ failed = {}
    /\ resume_count = 0
    /\ processed_emails = 0
    /\ f_exc = "none"
    /\ f_ret = NotReturned
    /\ walked = NotWalked
    /\ ResumeIdle
    /\ folder = <<>>
    /\ saved = <<>>
    /\ ParserIdle

NextWalk ==
    \/ WalkMessage
    \/ Summary
    \/ Teardown

SpecWalk == InitWalk /\ [][NextWalk]_vars

-----------------------------------------------------------------------------
(* A call is_resume_file(filename) *)

UpperChar(c) ==
    CASE c = "a" -> "A" [] c = "b" -> "B" [] c = "c" -> "C" [] c = "d" -> "D"
      [] c = "f" -> "F" [] c = "o" -> "O" [] c = "p" -> "P" [] c = "r" -> "R"
      [] c = "t" -> "T" [] c = "x" -> "X"
      [] OTHER -> c

\* s in every mix of upper and lower case
RECURSIVE CaseVariants(_)
CaseVariants(s) ==
    IF s = <<>> THEN {<<>>}
    ELSE { <<c>> \o rest : c \in {Head(s), UpperChar(Head(s))},
                           rest \in CaseVariants(Tail(s)) }

BaseNames == { <<"c">>, <<"a", ".", "b">>, <<".">>, <<>> }

\* suffixes that make no resume extension: none, a bare dot, unknown or longer
\* or shorter extensions, an extension name without its dot
OtherSuffixes ==
    { <<>>, <<".">>, <<".", "p", "n", "g">>, <<".", "p", "d", "f", "x">>,
      <<".", "p", "d">>, <<"p", "d", "f">>, <<".", "d", "o", "c", ".">>,
      <<".", "t", "x", "t", "_", "1">>, <<".", "p", "d", "f", ".", "b">> }

CheckedNames ==
    { b \o e : b \in BaseNames,
               e \in OtherSuffixes \cup UNION { CaseVariants(x) : x \in ResumeExtensions } }

\* is_resume_file(filename); the empty sequence stands for '' and for None,
\* which `not filename` treats alike
CheckResumeFile ==
    /\ ~checked.called
    /\ \E filename \in CheckedNames :
          checked' = [called |-> TRUE, filename |-> filename,
                      result |-> IsResumeFile(filename)]
    /\ UNCHANGED <<parserVars, saveVars, fetchVars>>

InitResume ==
    /\ checked = NotChecked
    /\ folder = <<>>
    /\ saved = <<>>
    /\ FetchIdle
    /\ ParserIdle

NextResume == CheckResumeFile

SpecResume == InitResume /\ [][NextResume]_vars

-----------------------------------------------------------------------------
(* Properties of safe_post_request, checked under SpecPost *)

Posts(l) == SelectSeq(l, LAMBDA e : e.ev = "post")
Waits(l) == SelectSeq(l, LAMBDA e : e.ev = "sleep")
StatusesOf(l) == [k \in 1..Len(Posts(l)) |-> Posts(l)[k].n]

\* C3: a 429 answer followed by a 200 answer means exactly two requests, exactly
\* one wait between them, of 2^0 = 1 second, and the 200 response is returned;
\* in general the wait after the rate-limited attempt with index i is 2^i.
C3_RetryOnceThenReturn ==
    /\ StatusesOf(log) = <<429, 200>> =>
          /\ pc = "post_return"
          /\ log = <<Post(429), Sleep(1), Post(200)>>
          /\ response.status = 200
          /\ exc = "none"
    /\ \A k \in 1..Len(Waits(log)) : Waits(log)[k].n = Pow2(k - 1)

C3_Witness ==
    /\ pc = "post_return"
    /\ StatusesOf(log) = <<429, 200>>
    /\ response.body = "valid"

\* C4: with retry count N, answers that are all 429 lead to exactly N requests and
\* then to the retries-exhausted error, with no response returned; whatever the
\* answers are, at most N requests are sent.
C4_AtMostNRequests ==
    /\ Len(Posts(log)) <= retries
    /\ (pc # "post" /\ \A k \in 1..Len(Posts(log)) : Posts(log)[k].n = 429) =>
          /\ pc = "raised"
          /\ exc = "Failed after retries."
          /\ Len(Posts(log)) = retries
          /\ response = NoResponse

C4_Witness ==
    /\ pc = "raised"
    /\ exc = "Failed after retries."
    /\ retries = DefaultRetries
    /\ StatusesOf(log) = <<429, 429, 429>>

IsSuccessStatus(status) == status >= 200 /\ status < 300
IsErrorStatus(status) == status >= 400 /\ status < 600

\* C5 as stated: an answer with any non-success status other than 429 ends the
\* call with an error: nothing follows it in the log (no request, no wait) and no
\* response is returned.
C5_AnyNonSuccessFails ==
    \A k \in 1..Len(log) :
        (log[k].ev = "post" /\ ~IsSuccessStatus(log[k].n) /\ log[k].n # 429) =>
            /\ k = Len(log)
            /\ pc = "raised"
            /\ response = NoResponse

\* C5 as amended: an answer with a 4xx or 5xx status other than 429 ends the call
\* with an HTTP error: nothing follows it in the log (no request, no wait) and no
\* response is returned.
C5_ErrorStatusFails ==
    \A k \in 1..Len(log) :
        (log[k].ev = "post" /\ IsErrorStatus(log[k].n) /\ log[k].n # 429) =>
            /\ k = Len(log)
            /\ pc = "raised"
            /\ exc = "HTTPError"
            /\ response = NoResponse

C5_Witness ==
    /\ pc = "raised"
    /\ exc = "HTTPError"
    /\ log = <<Post(429), Sleep(1), Post(404)>>

-----------------------------------------------------------------------------
(* Properties of process_resumes, checked under Spec *)

PdfFiles == {k \in 1..Len(listing) : IsPdfName(listing[k])}

\* C1: process_resumes always completes, with exactly one record per file whose
\* name ends in .pdf, whatever happens to an individual document.
C1_BatchAlwaysCompletes ==
    /\ pc # "raised"
    /\ pc = "done" => Len(returned) = Cardinality(PdfFiles)

IsDegraded(info) == DOMAIN info = {"error", "raw_response"}

Last(s) == s[Len(s)]

\* C6: a success response that does not parse (the body or the content is not
\* JSON) does not raise: extract_info returns a record with exactly the keys
\* error and raw_response, raw_response being the body, the record is kept with
\* its text, and the returned record carries the score of that text.
C6_StepDoesNotRaise ==
    pc = "post_return" =>
        /\ pc' = "loop"
        /\ exc' = "none"
        /\ Len(detailed_results') = Len(detailed_results) + 1
        /\ response.body # "valid" =>
              /\ IsDegraded(Last(detailed_results').info)
              /\ Last(detailed_results').info.raw_response = response.body
              /\ Last(detailed_results').text = textOf[listing[idx]]

C6_DegradedIsScored ==
    pc = "done" =>
        /\ \A k \in 1..Len(detailed_results) :
              IsDegraded(detailed_results[k].info) =>
                 \E j \in 1..Len(returned) :
                    /\ returned[j].file = detailed_results[k].file
                    /\ returned[j].info = detailed_results[k].info
                    /\ returned[j].relevance_score =
                          Round4(CosSim(textOf[detailed_results[k].file]))

C6_DegradedRecord == []C6_DegradedIsScored /\ [][C6_StepDoesNotRaise]_vars

C6_Witness ==
    /\ pc = "done"
    /\ \E j \in 1..Len(returned) :
          /\ IsDegraded(returned[j].info)
          /\ returned[j].info.raw_response = "content_not_json"
          /\ returned[j].relevance_score = 8123

\* C7: in every returned record the relevance_score is the rounded similarity of
\* the text of the record's own file, and that text is the one extract_info was
\* called with for that file.
C7_ScoreFromOwnText ==
    pc = "done" =>
        \A j \in 1..Len(returned) :
            /\ returned[j].file \in DOMAIN textOf
            /\ returned[j].relevance_score = Round4(CosSim(textOf[returned[j].file]))
            /\ [file |-> returned[j].file, text |-> textOf[returned[j].file]]
                  \in Range(prompted)

C7_Witness ==
    /\ pc = "done"
    /\ Len(returned) = 3
    /\ returned[1].relevance_score # returned[3].relevance_score
    /\ returned[1].file = detailed_results[3].file

\* C8: the returned list is in descending order of relevance_score, it is a
\* permutation of the records built in the extraction loop, and no returned
\* record has the key text.
C8_SortedPermutation ==
    pc = "done" =>
        /\ \A j \in 1..(Len(returned) - 1) :
              returned[j].relevance_score >= returned[j + 1].relevance_score
        /\ Len(returned) = Len(detailed_results)
        /\ \E perm \in [1..Len(returned) -> 1..Len(returned)] :
              /\ \A j, k \in 1..Len(returned) : j # k => perm[j] # perm[k]
              /\ \A j \in 1..Len(returned) :
                    /\ returned[j].file = detailed_results[perm[j]].file
                    /\ returned[j].info = detailed_results[perm[j]].info
        /\ \A j \in 1..Len(returned) :
              DOMAIN returned[j] = {"file", "info", "relevance_score"}

C8_Witness ==
    /\ pc = "done"
    /\ Len(returned) = 3
    /\ returned[1].relevance_score = returned[2].relevance_score
    /\ returned[2].relevance_score > returned[3].relevance_score
    /\ returned[1].file = detailed_results[2].file
    /\ returned[2].file = detailed_results[3].file
    /\ returned[3].file = detailed_results[1].file

-----------------------------------------------------------------------------
(* Properties of save_attachment, checked under SpecSave *)

\* the names save_attachment tries, in order: the name itself, then _1, _2, ...
Candidate(filename, n) ==
    IF n = 0 THEN filename
    ELSE Suffixed(SplitExt(filename).base, n, SplitExt(filename).ext)

\* how many earlier calls for the same name left a file behind
EarlierSaves(k) ==
    Cardinality({j \in 1..(k - 1) :
                    saved[j].filename = saved[k].filename /\ saved[j].created})

NeverOverwrites ==
    /\ \A k \in 1..Len(saved) : saved[k].stored \notin saved[k].before
    /\ \A j, k \in 1..Len(saved) :
          (j # k /\ saved[j].created /\ saved[k].created) =>
              saved[j].stored # saved[k].stored
    /\ \A k \in 1..Len(saved) :
          saved[k].created =>
              /\ saved[k].stored \in DOMAIN folder
              /\ folder[saved[k].stored] = saved[k].data

\* C2 as stated: no call writes to an existing path, every stored file keeps its
\* content, all stored names are distinct, and the k-th save of a name is stored
\* as the name itself (k = 1) or as <base>_<k-1><ext>.
C2_KthSaveGetsSuffixK ==
    /\ NeverOverwrites
    /\ \A k \in 1..Len(saved) :
          saved[k].stored = Candidate(saved[k].filename, EarlierSaves(k))

\* C2 as amended: no call writes to an existing path, every stored file keeps its
\* content, all stored names are distinct, and each save is stored under the
\* first of <name>, <base>_1<ext>, <base>_2<ext>, ... that is not in the folder
\* when the call is made.
C2_FirstFreeName ==
    /\ NeverOverwrites
    /\ \A k \in 1..Len(saved) :
          \E n \in 0..Len(saved) :
             /\ saved[k].stored = Candidate(saved[k].filename, n)
             /\ \A m \in 0..(n - 1) : Candidate(saved[k].filename, m) \in saved[k].before

C2_Witness ==
    /\ Len(saved) = 3
    /\ \A k \in 1..3 : saved[k].filename = <<"a", ".", "p", "d", "f">> /\ saved[k].ok
    /\ saved[1].stored = <<"a", ".", "p", "d", "f">>
    /\ saved[2].stored = <<"a", "_", "1", ".", "p", "d", "f">>
    /\ saved[3].stored = <<"a", "_", "2", ".", "p", "d", "f">>
    /\ folder[saved[1].stored] = 1

-----------------------------------------------------------------------------
(* Properties of fetch_resumes_from_gmail, checked under SpecFetch *)

Issued(name) == \E k \in 1..Len(imap_log) : imap_log[k].cmd = name

FetchedIds ==
    LET fetches == SelectSeq(imap_log, LAMBDA c : c.cmd = "fetch")
    IN  [k \in 1..Len(fetches) |-> fetches[k].arg]

\* C9: once a connection was obtained, a finished run has both closed the
\* mailbox and logged out, and no teardown failure reached the caller.
C9_ClosedAndLoggedOut ==
    (f_pc = "returned" /\ imap_state # "none") =>
        /\ Issued("close")
        /\ Issued("logout")
        /\ f_exc = "none"

\* C10: a failure while handling one unread message skips only that message:
\* the loop goes on with the next mail id, every mail id of the search result is
\* fetched, in order, and the run ends normally.
C10_FailureSkipsOneMessage ==
    /\ f_pc = "loop" => FetchedIds = SubSeq(mail_ids, 1, m_idx - 1)
    /\ (f_pc \in {"finally", "returned"} /\ mail_ids # <<>>) =>
          /\ FetchedIds = mail_ids
          /\ m_idx = Len(mail_ids) + 1
    /\ failed \subseteq 1..(m_idx - 1)
    /\ f_exc = "none"

C10_Witness ==
    /\ f_pc = "returned"
    /\ Len(mail_ids) = 2
    /\ failed = {1}
    /\ imap_log[5] = Cmd("fetch", 1, "OK")
    /\ imap_log[6] = Cmd("fetch", 2, "OK")
    /\ processed_emails = 2
    /\ resume_count = 2
    /\ saved[2].stored = <<"a", "_", "1", ".", "p", "d", "f">>

\* C11: the collector returns the number of files it saved; with no unread
\* message it returns 0.
C11_ReturnsSavedCount ==
    (f_pc = "returned" /\ \E k \in 1..Len(imap_log) : imap_log[k] = Cmd("search", 0, "OK")) =>
        f_ret = PyInt(resume_count)

\* C13: with the address or the secret missing the run stops before any command
\* is sent to the mail server: no connect, login, select, search or fetch.
C13_NoConnectionWithoutCredentials ==
    (~env.EMAIL \/ ~env.EMAIL_PASSWORD) =>
        /\ imap_log = <<>>
        /\ imap_state = "none"
        /\ f_pc \in {"start", "returned"}
        /\ f_exc = "none"

C13_Witness ==
    /\ f_pc = "returned"
    /\ env.EMAIL
    /\ ~env.EMAIL_PASSWORD
    /\ imap_log = <<>>
    /\ f_ret = PyNone

\* the extensions of the allow-list, without the dot
AllowList ==
    { <<"p", "d", "f">>, <<"d", "o", "c">>, <<"d", "o", "c", "x">>,
      <<"t", "x", "t">>, <<"r", "t", "f">> }

\* filename ends in a dot and an allow-listed extension in any letter case, and
\* something other than dots comes before that dot
HasResumeExtension(filename) ==
    \E e \in AllowList :
        /\ Len(filename) >= Len(e) + 2
        /\ filename[Len(filename) - Len(e)] = "."
        /\ SubSeq(filename, Len(filename) - Len(e) + 1, Len(filename)) \in CaseVariants(e)
        /\ \E k \in 1..(Len(filename) - Len(e) - 1) : filename[k] # "."

\* the parts walked before one raises
WalkedParts ==
    LET raising == {k \in 1..Len(walked.parts) :
                       /\ walked.parts[k].disposition = "attachment"
                       /\ walked.parts[k].filename.charset = "bogus"}
        stop == IF raising = {} THEN Len(walked.parts) + 1
                ELSE CHOOSE k \in raising : \A j \in raising : k <= j
    IN  SubSeq(walked.parts, 1, stop - 1)

Savable(part) ==
    /\ part.disposition = "attachment"
    /\ part.filename # NoFilename
    /\ HasResumeExtension(part.filename.name)

-----------------------------------------------------------------------------
(* Properties of is_resume_file, checked under SpecResume *)

\* C12: is_resume_file is true exactly for the filenames whose extension is one
\* of pdf, doc, docx, txt, rtf in any letter case; it is false for every other
\* filename, one without extension and the empty or missing one included.
C12_ResumeExtensionsOnly ==
    checked.called =>
        /\ checked.result = HasResumeExtension(checked.filename)
        /\ checked.filename = <<>> => checked.result = FALSE

C12_Witness ==
    /\ checked.called
    /\ checked.filename = <<"a", ".", "b", ".", "D", "o", "C", "x">>
    /\ checked.result = TRUE

-----------------------------------------------------------------------------
(* Further properties of process_resumes, checked under Spec *)

IsPrefix(s, t) == Len(s) <= Len(t) /\ SubSeq(t, 1, Len(s)) = s

\* C14: each extract_info call sleeps the cooldown exactly once, first of all,
\* whatever the earlier requests did; every later sleep of the call is the
\* backoff that follows a 429 answer.
C14_LogOfOneCall ==
    pc \in {"post", "post_return"} =>
        /\ log # <<>>
        /\ log[1] = Sleep(Cooldown)
        /\ \A k \in 2..Len(log) :
              /\ log[k] # Sleep(Cooldown)
              /\ log[k].ev = "sleep" => log[k - 1] = Post(429)

C14_StepOfOneCall ==
    /\ prompted' # prompted =>
          /\ Len(prompted') = Len(prompted) + 1
          /\ log' = <<Sleep(Cooldown)>>
    /\ prompted' = prompted =>
          /\ IsPrefix(log, log')
          /\ \A k \in (Len(log) + 1)..Len(log') : log'[k] # Sleep(Cooldown)

C14_CooldownOncePerDocument == []C14_LogOfOneCall /\ [][C14_StepOfOneCall]_vars

C14_Witness ==
    /\ pc = "post_return"
    /\ Len(prompted) = 2
    /\ Len(detailed_results) = 1
    /\ "name" \in DOMAIN detailed_results[1].info
    /\ log = <<Sleep(10), Post(429), Sleep(1), Post(429), Sleep(2), Post(200)>>

\* C16: rank_resumes is called exactly once in a run that returns, and not before
\* the loop is over, with the retained texts in extraction order; a call encodes
\* the job description once and gives one score per text, in the order of the
\* texts.
C16_RankedOnceAfterLoop ==
    /\ pc # "done" => rank_calls = <<>>
    /\ pc = "done" =>
          /\ Len(rank_calls) = 1
          /\ idx > Len(listing)
          /\ rank_calls[1].resume_texts = resume_texts
          /\ rank_calls[1].resume_texts = [k \in 1..Len(prompted) |-> prompted[k].text]
          /\ Cardinality({k \in 1..Len(rank_calls[1].encoded) :
                             rank_calls[1].encoded[k] = JobDesc}) = 1
          /\ Len(scores) = Len(rank_calls[1].resume_texts)
          /\ \A k \in 1..Len(scores) : scores[k] = CosSim(rank_calls[1].resume_texts[k])

C16_Witness ==
    /\ pc = "done"
    /\ Len(rank_calls) = 1
    /\ rank_calls[1].resume_texts = <<"t3", "t1", "t2">>
    /\ scores = <<0 - 1207, 81234, 81231>>

====
